---- MODULE Spec2Model ----
(***************************************************************************)
(* A model of the AITestingAgent browser harness:                          *)
(*   - locators/chatbot_locators.py : the locator catalog (LocatorUtils),  *)
(*   - commonMethods.py             : BrowserOperations (self-healing      *)
(*                                    lookup, one question/answer          *)
(*                                    exchange, the CSV scoreboard),       *)
(*   - browser_agent.py             : main, the question loop.             *)
(* Texts are TLA+ strings handled with Len, SubSeq and \o, so the string   *)
(* functions of the code (strip, lower, in, split, replace) are computed   *)
(* character by character.  The browser engine is the environment: what a  *)
(* query returns, whether an element is visible and whether a call raises  *)
(* are chosen nondeterministically from small pools of pages.              *)
(***************************************************************************)
EXTENDS Integers, Sequences, FiniteSets, TLC

VARIABLES
    universal,   \* ChatbotLocators.UNIVERSAL_*_SELECTORS, the three class-level lists
    locCall,     \* the last LocatorUtils call and what it returned
    file,        \* TestData/chatresponse.csv: NoFile or the rows as written
    csvCall,     \* the last save_to_csv call, whether the file existed, what it returned
    sinceReset,  \* the (question, answer) pairs passed since the store was last fresh
    pc,          \* where main stands
    questions,   \* the list load_questions_list returned
    testUrl,     \* test_params.get('url')
    qIndex,      \* the loop index i of main (from 1)
    answer,      \* `response` of main: what enter_text_and_get_response returned
    ex,          \* the exchange under way: the input field and how the text was sent
    attempted,   \* how many questions enter_text_and_get_response was called for
    last,        \* how the latest exchange ended and what it read
    scenario,    \* whether every exchange so far went as the end-to-end scenario says
    saves,       \* the save_to_csv calls main has made
    browser,     \* "none", "open" or "closed"
    status       \* "running", then "completed" (loop done) or "failed" (exception)

\* what the two harnesses of single components leave alone
runVars == <<pc, questions, testUrl, qIndex, answer, ex, attempted, last, scenario,
              saves, browser, status>>

vars == <<universal, locCall, file, csvCall, sinceReset, runVars>>

(***************************************************************************)
(* Python str functions                                                    *)
(***************************************************************************)
Char(s, i) == SubSeq(s, i, i)

\* the ASCII whitespace str.strip() and str.split() remove
Whitespace == {" ", "\n", "\r", "\t"}

IsSpace(c) == c \in Whitespace

RECURSIVE LStrip(_)
LStrip(s) == IF Len(s) > 0 /\ IsSpace(Char(s, 1)) THEN LStrip(Tail(s)) ELSE s

RECURSIVE RStrip(_)
RStrip(s) ==
    IF Len(s) > 0 /\ IsSpace(Char(s, Len(s)))
    THEN RStrip(SubSeq(s, 1, Len(s) - 1))
    ELSE s

\* str.strip()
Strip(s) == RStrip(LStrip(s))

UpperCase == "ABCDEFGHIJKLMNOPQRSTUVWXYZ"
LowerCase == "abcdefghijklmnopqrstuvwxyz"

\* the lower-case letter of each upper-case letter
LowerOf == [c \in {Char(UpperCase, k) : k \in 1..26} |->
               Char(LowerCase, CHOOSE k \in 1..26 : Char(UpperCase, k) = c)]

LowerChar(c) == IF c \in DOMAIN LowerOf THEN LowerOf[c] ELSE c

RECURSIVE Lower(_)
\* str.lower()
Lower(s) == IF Len(s) = 0 THEN "" ELSE LowerChar(Char(s, 1)) \o Lower(Tail(s))

\* sub in s
Contains(sub, s) ==
    \E k \in 0..(Len(s) - Len(sub)) : SubSeq(s, k + 1, k + Len(sub)) = sub

\* s.startswith(prefix)
StartsWith(s, prefix) ==
    Len(s) >= Len(prefix) /\ SubSeq(s, 1, Len(prefix)) = prefix

\* x in list
InList(x, list) == \E k \in 1..Len(list) : list[k] = x

RECURSIVE RemoveFirst(_, _)
\* list.remove(x): the first occurrence goes, the order of the rest is kept
RemoveFirst(list, x) ==
    IF Len(list) = 0 THEN <<>>
    ELSE IF Head(list) = x THEN Tail(list)
    ELSE <<Head(list)>> \o RemoveFirst(Tail(list), x)

RECURSIVE Find(_, _, _)
\* the position (from 1) of the first occurrence of sub in s at or after k, 0 if none
Find(sub, s, k) ==
    IF k + Len(sub) - 1 > Len(s) THEN 0
    ELSE IF SubSeq(s, k, k + Len(sub) - 1) = sub THEN k
    ELSE Find(sub, s, k + 1)

RECURSIVE Split(_, _)
\* s.split(sep) for a non-empty sep: occurrences are taken from the left, without overlap
Split(s, sep) ==
    LET p == Find(sep, s, 1) IN
    IF p = 0 THEN <<s>>
    ELSE <<SubSeq(s, 1, p - 1)>> \o Split(SubSeq(s, p + Len(sep), Len(s)), sep)

RECURSIVE Remove(_, _)
\* s.replace(old, "")
Remove(s, old) ==
    LET p == Find(old, s, 1) IN
    IF p = 0 THEN s
    ELSE SubSeq(s, 1, p - 1) \o Remove(SubSeq(s, p + Len(old), Len(s)), old)

RECURSIVE WordEnd(_, _)
\* the position of the last character of the word of s that starts at k
WordEnd(s, k) ==
    IF k < Len(s) /\ ~IsSpace(Char(s, k + 1)) THEN WordEnd(s, k + 1) ELSE k

RECURSIVE Words(_)
\* s.split(): the maximal runs of non-whitespace
Words(s) ==
    LET t == LStrip(s) IN
    IF t = "" THEN <<>>
    ELSE LET e == WordEnd(t, 1) IN <<SubSeq(t, 1, e)>> \o Words(SubSeq(t, e + 1, Len(t)))

RECURSIVE Join(_, _)
\* sep.join(list)
Join(sep, list) ==
    IF Len(list) = 0 THEN ""
    ELSE IF Len(list) = 1 THEN list[1]
    ELSE list[1] \o sep \o Join(sep, Tail(list))

(***************************************************************************)
(* locators/chatbot_locators.py                                            *)
(***************************************************************************)
\* the keys of URL_PATTERNS in declaration (= dict iteration) order
ProfileOrder == <<"easemate", "gemini", "chatgpt", "claude", "default">>

URL_PATTERNS ==
    [easemate |-> [url_patterns |-> <<"easemate.ai", "ease-mate.ai">>,
                   input_primary |-> "textarea[placeholder*=\"Ask\"]",
                   send_primary |-> "button[aria-label*=\"Send\"]",
                   response_primary |-> ".chat-message"],
     gemini |-> [url_patterns |-> <<"gemini.google.com", "bard.google.com">>,
                 input_primary |-> "div[contenteditable=\"true\"]",
                 send_primary |-> "button[aria-label*=\"Send\"]",
                 response_primary |-> ".response-content"],
     chatgpt |-> [url_patterns |-> <<"chat.openai.com", "chatgpt.com">>,
                  input_primary |-> "#prompt-textarea",
                  send_primary |-> "button[data-testid=\"send-button\"]",
                  response_primary |-> ".markdown"],
     claude |-> [url_patterns |-> <<"claude.ai">>,
                 input_primary |-> "div[contenteditable=\"true\"]",
                 send_primary |-> "button[aria-label*=\"Send\"]",
                 response_primary |-> ".font-claude-message"],
     default |-> [url_patterns |-> <<>>,
                  input_primary |-> "textarea[placeholder*=\"Ask\"]",
                  send_primary |-> "button[aria-label*=\"Send\"]",
                  response_primary |-> ".chat-message"]]

UNIVERSAL_INPUT_SELECTORS ==
    <<"textarea[placeholder*=\"Ask\"]", "textarea[placeholder*=\"message\"]",
      "textarea[placeholder*=\"Message\"]", "textarea[placeholder*=\"Type\"]",
      "textarea[placeholder*=\"type\"]", "input[type=\"text\"]",
      "div[contenteditable=\"true\"]", "[contenteditable=\"true\"]",
      "[role=\"textbox\"]", "textarea", ".input-field", ".chat-input",
      "#message-input", "input[placeholder*=\"Type\"]", "div[role=\"textbox\"]">>

UNIVERSAL_SEND_SELECTORS ==
    <<"button[type=\"submit\"]", "button:has-text(\"Send\")",
      "button:has-text(\"send\")", "button:has-text(\"Submit\")",
      "button:has-text(\"submit\")", "button[aria-label*=\"Send\"]",
      "button[aria-label*=\"send\"]", ".send-button", ".send-btn", "button svg",
      "button:has(svg)", "button[class*=\"send\"]", "button[class*=\"submit\"]",
      "button[class*=\"arrow\"]", "button[class*=\"right\"]">>

UNIVERSAL_RESPONSE_SELECTORS ==
    <<".chat-message", ".message-content", ".response-content", ".ai-response",
      ".chat-response", ".message", ".response", "[data-testid*=\"response\"]",
      "[data-testid*=\"message\"]", ".prose", ".markdown", ".text-message",
      ".conversation-turn", ".bot-message", ".assistant-message", ".ai-message",
      "div[class*=\"message\"]", "div[class*=\"response\"]", "div[class*=\"chat\"]",
      "p", "div[class*=\"text\"]">>

GENERIC_INPUT_SELECTORS ==
    <<"input", "textarea", "[contenteditable=\"true\"]", "[role=\"textbox\"]">>

\* the three element classes a lookup is made for
ElementClasses == {"input", "send", "response"}

\* the class-level lists as they stand when the module has been imported
DeclaredUniversal ==
    [input |-> UNIVERSAL_INPUT_SELECTORS,
     send |-> UNIVERSAL_SEND_SELECTORS,
     response |-> UNIVERSAL_RESPONSE_SELECTORS]

RECURSIVE DetectFrom(_, _)
\* the two nested loops of detect_chatbot_type, from profile k on
DetectFrom(url_lower, k) ==
    IF k > Len(ProfileOrder) THEN "default"
    ELSE LET patterns == URL_PATTERNS[ProfileOrder[k]].url_patterns IN
         IF \E j \in 1..Len(patterns) : Contains(patterns[j], url_lower)
         THEN ProfileOrder[k]
         ELSE DetectFrom(url_lower, k + 1)

\* a plausible slip: the URL is matched as given, without lower()
detect_chatbot_type_CaseSensitive(url) == DetectFrom(url, 1)

detect_chatbot_type(url) == DetectFrom(Lower(url), 1)

\* get_primary_input_locator, get_primary_send_button_locator and
\* get_primary_response_locator; an empty url is falsy and gives the default
get_primary_locator(locator_type, url) ==
    LET config == IF url # "" THEN URL_PATTERNS[detect_chatbot_type(url)]
                  ELSE URL_PATTERNS["default"] IN
    IF locator_type = "input" THEN config.input_primary
    ELSE IF locator_type = "send" THEN config.send_primary
    ELSE config.response_primary

\* a plausible slip: the primary is left in the list
get_fallback_locators_NoRemove(primary_locator, locator_type, u) ==
    IF locator_type \in ElementClasses
    THEN [ret |-> u[locator_type], universal |-> u]
    ELSE [ret |-> <<>>, universal |-> u]

\* a plausible slip: the list is handed out as it was and the primary is taken
\* out of the class-level list afterwards
get_fallback_locators_StaleCopy(primary_locator, locator_type, u) ==
    IF locator_type \in ElementClasses
    THEN LET fallbacks == u[locator_type]
             after == IF InList(primary_locator, fallbacks)
                      THEN RemoveFirst(fallbacks, primary_locator)
                      ELSE fallbacks
         IN [ret |-> fallbacks, universal |-> [u EXCEPT ![locator_type] = after]]
    ELSE [ret |-> <<>>, universal |-> u]

\* get_fallback_locators: `fallbacks` is the class-level list itself (get_all_locators
\* hands out the list objects, not copies), so remove() changes the list for good;
\* u is the lists before the call, .universal the lists after it
get_fallback_locators(primary_locator, locator_type, u) ==
    IF locator_type \in ElementClasses
    THEN LET fallbacks == u[locator_type]
             after == IF InList(primary_locator, fallbacks)
                      THEN RemoveFirst(fallbacks, primary_locator)
                      ELSE fallbacks
         IN [ret |-> after, universal |-> [u EXCEPT ![locator_type] = after]]
    ELSE [ret |-> <<>>, universal |-> u]

(***************************************************************************)
(* commonMethods.py: save_to_csv, the scoreboard                           *)
(***************************************************************************)
\* range(20) at the reset: the number of data rows of the scoreboard
ROWS == 20

Header == <<"Question", "Answer", "Score">>

BlankRow == <<"", "", "">>

NoFile == [exists |-> FALSE, rows |-> <<>>]

\* a plausible slip: the reset writes one data row too few
ResetRows_Short == <<Header>> \o [k \in 1..(ROWS - 1) |-> BlankRow]

\* what the reset branch writes: the header and 20 rows of three empty cells
ResetRows == <<Header>> \o [k \in 1..ROWS |-> BlankRow]

RECURSIVE Translate(_)
\* the file is written with newline='' (cells go out as they are) and read back by
\* open(file_path, 'r') without it: universal newlines turn "\r\n" and "\r" into "\n",
\* inside quoted cells too
Translate(s) ==
    IF Len(s) = 0 THEN ""
    ELSE IF Len(s) >= 2 /\ SubSeq(s, 1, 2) = "\r\n" THEN "\n" \o Translate(SubSeq(s, 3, Len(s)))
    ELSE IF Char(s, 1) = "\r" THEN "\n" \o Translate(Tail(s))
    ELSE Char(s, 1) \o Translate(Tail(s))

\* rows = list(csv.reader(file)) on the rows a csv.writer wrote
ReadRows(rows) ==
    [k \in 1..Len(rows) |-> [c \in 1..Len(rows[k]) |-> Translate(rows[k][c])]]

\* a plausible slip: the scan takes any row of three cells, filled or not
FirstEmptyRow_AnyRow(rows) ==
    LET hits == {k \in 2..Len(rows) : Len(rows[k]) >= 3} IN
    IF hits = {} THEN 0 ELSE CHOOSE k \in hits : \A h \in hits : k <= h

\* a plausible slip: the scan keeps the last free row it sees, not the first
FirstEmptyRow_LastFree(rows) ==
    LET hits == {k \in 2..Len(rows) : Len(rows[k]) >= 3 /\ Strip(rows[k][1]) = ""} IN
    IF hits = {} THEN 0 ELSE CHOOSE k \in hits : \A h \in hits : k >= h

\* the scan for empty_row_index: the first row after the header that has at least
\* three cells and a Question cell that strips to nothing; 0 stands for None
\* (position k here is index k - 1 of the code)
FirstEmptyRow(rows) ==
    LET hits == {k \in 2..Len(rows) : Len(rows[k]) >= 3 /\ Strip(rows[k][1]) = ""} IN
    IF hits = {} THEN 0 ELSE CHOOSE k \in hits : \A h \in hits : k <= h

\* save_to_csv(question, response, reset_file) on the file f: the returned bool and
\* the file afterwards.  A missing file makes open() raise, which the except turns
\* into False.
save_to_csv(question, response, reset_file, f) ==
    LET f1 == IF reset_file THEN [exists |-> TRUE, rows |-> ResetRows] ELSE f IN
    IF ~f1.exists THEN [ret |-> FALSE, file |-> f1]
    ELSE LET rows == ReadRows(f1.rows)
             empty_row_index == FirstEmptyRow(rows)
         IN IF empty_row_index = 0 THEN [ret |-> FALSE, file |-> f1]
            ELSE [ret |-> TRUE,
                  file |-> [exists |-> TRUE,
                            rows |-> [rows EXCEPT ![empty_row_index] =
                                         [@ EXCEPT ![1] = question,
                                                   ![2] = response,
                                                   ![3] = ""]]]]

(***************************************************************************)
(* The locator catalog on its own: any sequence of LocatorUtils calls      *)
(***************************************************************************)
\* URLs: no profile, upper case, two profiles at once, a second pattern, empty
UrlPool ==
    {"https://chat.example.com/app", "https://GEMINI.Google.com/app",
     "https://claude.ai/chat?from=ChatGPT.com", "HTTPS://EASE-MATE.AI/", ""}

\* primaries: the profiles' own (some are in a universal list, some in none) and
\* one more selector of the input list
PrimaryPool ==
    {URL_PATTERNS[k].input_primary : k \in DOMAIN URL_PATTERNS}
        \cup {URL_PATTERNS[k].send_primary : k \in DOMAIN URL_PATTERNS}
        \cup {URL_PATTERNS[k].response_primary : k \in DOMAIN URL_PATTERNS}
        \cup {"textarea"}

NoLocCall ==
    [op |-> "none", url |-> "", primary |-> "", locator_type |-> "",
     ret |-> <<>>, kind |-> ""]

NoCsvCall == [op |-> "none", question |-> "", response |-> "", reset_file |-> FALSE,
              existed |-> FALSE, before |-> NoFile, ret |-> FALSE]

NoExchange == [input |-> "", sent |-> "", clicked |-> "", keys |-> <<>>,
               send_visible |-> FALSE]

NoResult == [kind |-> "none", question |-> "", page |-> "", ret |-> "", picked |-> "",
             path |-> "", elements |-> <<>>, valid |-> <<>>]

\* main has not been started
IdleRun ==
    /\ pc = "idle"
    /\ questions = <<>>
    /\ testUrl = ""
    /\ qIndex = 0
    /\ answer = ""
    /\ ex = NoExchange
    /\ attempted = 0
    /\ last = NoResult
    /\ scenario = FALSE
    /\ saves = <<>>
    /\ browser = "none"
    /\ status = "running"

InitLoc ==
    /\ universal = DeclaredUniversal
    /\ locCall = NoLocCall
    /\ file = NoFile
    /\ csvCall = NoCsvCall
    /\ sinceReset = [on |-> FALSE, pairs |-> <<>>, odd |-> 0]
    /\ IdleRun

\* LocatorUtils.detect_chatbot_type(url)
CallDetect ==
    \E url \in UrlPool :
        /\ locCall' = [NoLocCall EXCEPT !.op = "detect", !.url = url,
                                        !.kind = detect_chatbot_type(url)]
        /\ UNCHANGED <<universal, file, csvCall, sinceReset, runVars>>

\* LocatorUtils.get_fallback_locators(primary_locator, locator_type, url)
CallGetFallback ==
    \E primary \in PrimaryPool, locator_type \in ElementClasses \cup {"other"},
       url \in {"https://chat.example.com/app"} :
        \E r \in {get_fallback_locators(primary, locator_type, universal)} :
        /\ locCall' = [NoLocCall EXCEPT !.op = "fallback", !.url = url,
                                        !.primary = primary,
                                        !.locator_type = locator_type,
                                        !.ret = r.ret]
        /\ universal' = r.universal
        /\ UNCHANGED <<file, csvCall, sinceReset, runVars>>

NextLoc == CallDetect \/ CallGetFallback

SpecLoc == InitLoc /\ [][NextLoc]_vars

(***************************************************************************)
(* The scoreboard on its own: any sequence of save_to_csv calls            *)
(***************************************************************************)
\* how many calls of one run of calls may pass a pair other than DefaultPair
MaxOdd == 1

DefaultPair == <<"HI", "Hello! How can I help you today?">>

\* a blank question, an empty one, and cells with carriage returns
OddPairs == {<<" ", "an answer to nothing">>, <<"", "">>, <<"Q\r2", "two\r\nlines">>}

FilledRows(n) ==
    [k \in 1..ROWS |-> IF k <= n THEN <<"old question", "old answer", "">> ELSE BlankRow]

\* what may be on disk before the first call: nothing, an empty file, a blank
\* scoreboard, a partly filled and a full one, a short one, and a ragged one
PriorFiles ==
    {NoFile,
     [exists |-> TRUE, rows |-> <<>>],
     [exists |-> TRUE, rows |-> ResetRows],
     [exists |-> TRUE, rows |-> <<Header>> \o FilledRows(2)],
     [exists |-> TRUE, rows |-> <<Header>> \o FilledRows(ROWS)],
     [exists |-> TRUE, rows |-> <<Header, <<"old question", "old answer", "7">>, BlankRow>>],
     [exists |-> TRUE, rows |-> <<Header, <<"x">>, <<>>, <<"", "">>, <<" ", "a", "b", "c">>>>]}

InitCsv ==
    /\ universal = DeclaredUniversal
    /\ locCall = NoLocCall
    /\ file \in PriorFiles
    /\ csvCall = NoCsvCall
    /\ sinceReset = [on |-> file.exists /\ file.rows = ResetRows, pairs |-> <<>>, odd |-> 0]
    /\ IdleRun

\* one call save_to_csv(question, response, reset_file); `before` keeps the file
\* as it was when the call was made
CallSave ==
    \E pair \in {DefaultPair} \cup OddPairs, reset_file \in BOOLEAN :
        \E r \in {save_to_csv(pair[1], pair[2], reset_file, file)},
           isOdd \in {IF pair = DefaultPair THEN 0 ELSE 1} :
        /\ reset_file \/ sinceReset.odd + isOdd <= MaxOdd
        /\ reset_file \/ ~sinceReset.on \/ Len(sinceReset.pairs) <= ROWS
        /\ file' = r.file
        /\ csvCall' = [op |-> "save", question |-> pair[1], response |-> pair[2],
                       reset_file |-> reset_file, existed |-> file.exists,
                       before |-> file, ret |-> r.ret]
        /\ sinceReset' =
              IF reset_file THEN [on |-> TRUE, pairs |-> <<pair>>, odd |-> isOdd]
              ELSE [sinceReset EXCEPT
                        !.pairs = IF sinceReset.on THEN Append(@, pair) ELSE @,
                        !.odd = @ + isOdd]
        /\ UNCHANGED <<universal, locCall, runVars>>

NextCsv == CallSave

SpecCsv == InitCsv /\ [][NextCsv]_vars

(***************************************************************************)
(* Claims about the locator catalog (checked under SpecLoc)                *)
(***************************************************************************)
\* C9: for every element class in {input, send, response}, every URL and every
\* primary selector, the list get_fallback_locators returns does not contain the
\* primary, after any sequence of earlier calls.
C9_FallbackExcludesPrimary ==
    (locCall.op = "fallback" /\ locCall.locator_type \in ElementClasses)
        => ~InList(locCall.primary, locCall.ret)

\* a call for a primary the input list declares, after an earlier call has already
\* shortened the send list
C9_Witness ==
    /\ locCall.op = "fallback"
    /\ locCall.locator_type = "input"
    /\ InList(locCall.primary, UNIVERSAL_INPUT_SELECTORS)
    /\ Len(universal.send) < Len(UNIVERSAL_SEND_SELECTORS)
    /\ Len(locCall.ret) >= Len(UNIVERSAL_INPUT_SELECTORS) - 2

\* pattern occurs in url when the two are compared letter by letter without case
MatchesIgnoringCase(pattern, url) ==
    \E k \in 0..(Len(url) - Len(pattern)) :
        \A j \in 1..Len(pattern) :
            LowerChar(Char(url, k + j)) = LowerChar(Char(pattern, j))

ProfileMatches(key, url) ==
    \E j \in 1..Len(URL_PATTERNS[key].url_patterns) :
        MatchesIgnoringCase(URL_PATTERNS[key].url_patterns[j], url)

\* C10: detect_chatbot_type is total and case-insensitive: it returns the key of
\* the first profile in declaration order one of whose url patterns is a substring
\* of the URL compared without regard to case, and "default" exactly when no
\* pattern of any profile is such a substring.
C10_DetectFirstMatchingProfile ==
    locCall.op = "detect" =>
        LET hits == {k \in 1..4 : ProfileMatches(ProfileOrder[k], locCall.url)} IN
        /\ hits # {} =>
              locCall.kind = ProfileOrder[CHOOSE k \in hits : \A h \in hits : k <= h]
        /\ hits = {} <=> locCall.kind = "default"

\* a URL in mixed case that holds a pattern of claude and one of chatgpt
C10_Witness ==
    /\ locCall.op = "detect"
    /\ locCall.url = "https://claude.ai/chat?from=ChatGPT.com"
    /\ locCall.kind = "chatgpt"

(***************************************************************************)
(* Claims about the scoreboard (checked under SpecCsv)                     *)
(***************************************************************************)
\* C4: for any question and answer and any prior content of the scoreboard file
\* (including no file), save_to_csv(q, a, reset_file=True) succeeds and leaves
\* exactly 21 rows: the header, then (q, a, ""), then 19 blank rows.
C4_ResetLeavesHeaderPairAndBlanks ==
    (csvCall.op = "save" /\ csvCall.reset_file) =>
        /\ csvCall.ret
        /\ file.exists
        /\ Len(file.rows) = ROWS + 1
        /\ file.rows[1] = Header
        /\ file.rows[2] = <<csvCall.question, csvCall.response, "">>
        /\ \A k \in 3..(ROWS + 1) : file.rows[k] = BlankRow

\* a reset call made when there was no file, with a blank question
C4_Witness ==
    /\ csvCall.op = "save"
    /\ csvCall.reset_file
    /\ ~csvCall.existed
    /\ csvCall.question = " "

\* C5 as stated: starting from a freshly reset scoreboard, the k-th of 20 calls
\* with any question/answer pairs writes row k, and a 21st call fails.
C5_AnyPairsFillInCallOrder ==
    (sinceReset.on /\ Len(sinceReset.pairs) >= 1) =>
        LET n == Len(sinceReset.pairs) IN
        IF n <= ROWS
        THEN /\ csvCall.ret
             /\ file.rows[n + 1] = <<sinceReset.pairs[n][1], sinceReset.pairs[n][2], "">>
        ELSE ~csvCall.ret

NonBlankQuestions(pairs) == \A j \in 1..Len(pairs) : Strip(pairs[j][1]) # ""

\* the rows after the calls `pairs` on a fresh scoreboard: the row of the last call
\* as passed, the rows before it as the later calls read them back
RowsAfter(pairs) ==
    LET m == IF Len(pairs) <= ROWS THEN Len(pairs) ELSE ROWS IN
    <<Header>> \o
        [k \in 1..ROWS |->
            IF k < m THEN <<Translate(pairs[k][1]), Translate(pairs[k][2]), "">>
            ELSE IF k = m THEN <<pairs[k][1], pairs[k][2], "">>
            ELSE BlankRow]

\* C5 (amended): starting from a freshly reset scoreboard, 20 successive calls
\* whose questions are not blank fill data rows 1..20 in call order (the k-th call
\* writes row k), and a 21st call returns False and leaves the store exactly as it
\* was after the 20th call.
C5_NonBlankFillInCallOrder ==
    (sinceReset.on /\ Len(sinceReset.pairs) >= 1 /\ NonBlankQuestions(sinceReset.pairs)) =>
        /\ file.exists
        /\ file.rows = RowsAfter(sinceReset.pairs)
        /\ csvCall.ret = (Len(sinceReset.pairs) <= ROWS)

\* the 21st call after a reset, one of the 20 before it with a carriage return
C5_Witness ==
    /\ sinceReset.on
    /\ Len(sinceReset.pairs) = ROWS + 1
    /\ NonBlankQuestions(sinceReset.pairs)
    /\ \E j \in 1..ROWS : sinceReset.pairs[j][1] = "Q\r2"
    /\ ~csvCall.ret

(***************************************************************************)
(* commonMethods.py: find_element_with_healing                             *)
(***************************************************************************)
\* A page as the queries see it: match maps a selector to the handles
\* query_selector_all returns for it (a selector not in its domain matches
\* nothing), bad holds the selectors whose query raises.
Query(page, selector) ==
    IF selector \in DOMAIN page.match THEN page.match[selector] ELSE <<>>

QueryRaises(page, selector) == selector \in page.bad

\* the selector has a match on the page whose is_visible() answers true
VisibleMatch(page, selector) ==
    /\ ~QueryRaises(page, selector)
    /\ \E k \in 1..Len(Query(page, selector)) : Query(page, selector)[k].visible = "yes"

\* the page shows a send control: a visible match of the primary send selector of
\* the URL or of a declared universal send selector
SendControlVisible(page, url) ==
    \/ VisibleMatch(page, get_primary_locator("send", url))
    \/ \E k \in 1..Len(UNIVERSAL_SEND_SELECTORS) :
          VisibleMatch(page, UNIVERSAL_SEND_SELECTORS[k])

\* None, where the code has an element handle
NoElement == [id |-> "", visible |-> "no", acts |-> TRUE]

\* a plausible slip: the first handle is taken without the is_visible() probe
FirstVisible_AnyHandle(elements) ==
    IF Len(elements) = 0 THEN NoElement ELSE elements[1]

\* `for element in elements`: the first handle whose is_visible() is true; a
\* handle whose is_visible() raises is skipped like a hidden one
FirstVisible(elements) ==
    LET hits == {k \in 1..Len(elements) : elements[k].visible = "yes"} IN
    IF hits = {} THEN NoElement
    ELSE elements[CHOOSE k \in hits : \A h \in hits : k <= h]

RECURSIVE FallbackScan(_, _, _)
\* `for i, fallback_locator in enumerate(fallbacks, 1)`: a query that raises moves on
FallbackScan(page, fallbacks, k) ==
    IF k > Len(fallbacks) THEN NoElement
    ELSE IF QueryRaises(page, fallbacks[k]) THEN FallbackScan(page, fallbacks, k + 1)
    ELSE LET first == FirstVisible(Query(page, fallbacks[k])) IN
         IF first.id # "" THEN first ELSE FallbackScan(page, fallbacks, k + 1)

\* ', '.join(generic_fallbacks)
GenericQuery == Join(", ", GENERIC_INPUT_SELECTORS)

RECURSIVE FallbackQueried(_, _, _)
\* the selectors the fallback loop hands to query_selector_all, from fallback k
\* on: the loop returns at the first selector that has a visible match
FallbackQueried(page, fallbacks, k) ==
    IF k > Len(fallbacks) THEN <<>>
    ELSE IF ~QueryRaises(page, fallbacks[k])
            /\ FirstVisible(Query(page, fallbacks[k])).id # ""
         THEN <<fallbacks[k]>>
         ELSE <<fallbacks[k]>> \o FallbackQueried(page, fallbacks, k + 1)

\* find_element_with_healing(locator_type, primary_locator, url) on `page`, with the
\* universal lists u: the element found (NoElement for None), the stage that found
\* it, the selectors queried in order, and the lists afterwards.  A raise of the
\* primary or of the generic query ends in the outer except, which returns None
\* (stage "error").
find_element_with_healing(locator_type, primary_locator, url, page, u) ==
    LET primary == IF primary_locator = ""
                   THEN get_primary_locator(locator_type, url)
                   ELSE primary_locator
    IN
    IF QueryRaises(page, primary)
    THEN [element |-> NoElement, universal |-> u, stage |-> "error",
          queried |-> <<primary>>]
    ELSE LET first == FirstVisible(Query(page, primary)) IN
         IF first.id # ""
         THEN [element |-> first, universal |-> u, stage |-> "primary",
               queried |-> <<primary>>]
         ELSE LET fb == get_fallback_locators(primary, locator_type, u)
                  hit == FallbackScan(page, fb.ret, 1)
                  tried == <<primary>> \o FallbackQueried(page, fb.ret, 1)
              IN
              IF hit.id # ""
              THEN [element |-> hit, universal |-> fb.universal, stage |-> "fallback",
                    queried |-> tried]
              ELSE IF QueryRaises(page, GenericQuery)
                   THEN [element |-> NoElement, universal |-> fb.universal,
                         stage |-> "error", queried |-> Append(tried, GenericQuery)]
                   ELSE LET generic == FirstVisible(Query(page, GenericQuery)) IN
                        [element |-> generic, universal |-> fb.universal,
                         stage |-> IF generic.id # "" THEN "generic" ELSE "none",
                         queried |-> Append(tried, GenericQuery)]

(***************************************************************************)
(* commonMethods.py: enter_text_and_get_response, capturing the response   *)
(***************************************************************************)
placeholder_texts ==
    <<"Enter to send", "Shift + Enter to newline",
      "Enter to send; Shift + Enter to newline", "Type a message",
      "Type your message", "Ask me anything", "Send a message",
      "Enter your prompt", "Start typing...">>

\* the list of line 280, used by the filters
ui_elements ==
    <<"Expand menu", "Use microphone", "New chat", "Edit prompt", "Stop response",
      "Continue", "Regenerate", "Copy", "Share", "Send", "Submit", "Clear",
      "Delete", "Edit">>

\* the list of line 376, used by the cleaning
ui_elements_cleanup ==
    <<"Expand menu", "Use microphone", "New chat", "Edit prompt", "Stop response",
      "Continue", "Regenerate", "Copy", "Share">>

\* len(text.strip()) > 20
MIN_LENGTH == 20

\* len(text_clean) < 30
SHORT_LENGTH == 30

NO_RESPONSE == "No response captured"

\* any(item in text for item in list)
AnyIn(list, text) == \E k \in 1..Len(list) : Contains(list[k], text)

\* a plausible slip: every visible element that has text is taken
ElementAccepted_VisibleOnly(text, visible) == text # "" /\ visible

\* a plausible slip: the two length tests are left out
ElementAccepted_NoLength(text, visible) ==
    /\ text # ""
    /\ visible
    /\ LET text_clean == Strip(text) IN
       /\ ~AnyIn(placeholder_texts, text_clean)
       /\ ~AnyIn(ui_elements, text_clean)
       /\ ~(Lower(text_clean) = Lower(text))

\* lines 295-306: whether an element goes into valid_responses.  `text` is the
\* element's own text_content() here (the loop assigns it to the name of the
\* parameter), so is_user_message compares the stripped text with the unstripped
\* text of the same element.
ElementAccepted(text, visible) ==
    /\ text # ""
    /\ visible
    /\ Len(Strip(text)) > MIN_LENGTH
    /\ LET text_clean == Strip(text) IN
       /\ ~AnyIn(placeholder_texts, text_clean)
       /\ ~AnyIn(ui_elements, text_clean)
       /\ ~(Lower(text_clean) = Lower(text))
       /\ ~(Len(text_clean) < SHORT_LENGTH)

\* the local variable `text`: a str, or None after a text_content() of None
Str(s) == [none |-> FALSE, s |-> s]

RECURSIVE ElementLoop(_, _, _, _)
\* `for element in response_elements`, from element k on: the value `text` is left
\* with and valid_responses.  A raise of text_content(), is_visible() or
\* bounding_box() is swallowed by the `except: pass` of the loop body.
ElementLoop(elements, k, text, valid) ==
    IF k > Len(elements) THEN [text |-> text, valid |-> valid]
    ELSE LET e == elements[k]
             t == [none |-> e.none, s |-> IF e.none THEN "" ELSE e.text]
         IN
         IF e.fault = "text" THEN ElementLoop(elements, k + 1, text, valid)
         ELSE IF e.fault = "visible" \/ e.none \/ ~ElementAccepted(e.text, e.visible)
              THEN ElementLoop(elements, k + 1, t, valid)
         ELSE IF e.fault = "box" THEN ElementLoop(elements, k + 1, t, valid)
         ELSE ElementLoop(elements, k + 1, t,
                          Append(valid, [text |-> Strip(e.text),
                                         y_position |-> IF e.box THEN e.y ELSE 0]))

\* a plausible slip: of the entries with the largest y the last one is taken
LatestResponse_LastOfTies(valid) ==
    LET top == {k \in 1..Len(valid) :
                   \A h \in 1..Len(valid) : valid[h].y_position <= valid[k].y_position}
    IN valid[CHOOSE k \in top : \A h \in top : k >= h].text

\* valid_responses.sort(key=y_position, reverse=True)[0]['text']: the sort is
\* stable, so of the entries with the largest y the first one comes first
LatestResponse(valid) ==
    LET top == {k \in 1..Len(valid) :
                   \A h \in 1..Len(valid) : valid[h].y_position <= valid[k].y_position}
    IN valid[CHOOSE k \in top : \A h \in top : k <= h].text

\* lines 351-358: whether a line of the page text goes into valid_lines
LineAccepted(line_clean, text) ==
    /\ line_clean # ""
    /\ Len(line_clean) > MIN_LENGTH
    /\ ~AnyIn(placeholder_texts, line_clean)
    /\ ~AnyIn(ui_elements, line_clean)
    /\ ~(Lower(line_clean) = Lower(text))
    /\ ~(Len(line_clean) < SHORT_LENGTH)

\* valid_lines.sort(key=length, reverse=True)[0]['text']
LongestLine(valid_lines) ==
    LET top == {k \in 1..Len(valid_lines) :
                   \A h \in 1..Len(valid_lines) : Len(valid_lines[h]) <= Len(valid_lines[k])}
    IN valid_lines[CHOOSE k \in top : \A h \in top : k <= h]

\* lines 331-370 with the value `text` has after the element loop: "" stands for
\* a response_text left empty.  `None in page_text` (TypeError), split('')
\* (ValueError) and a raise of evaluate() all end in the except of line 369.
PageTextResponse(text, page_text, evaluate_raises) ==
    IF evaluate_raises \/ text.none THEN ""
    ELSE IF ~Contains(text.s, page_text) THEN ""
    ELSE IF text.s = "" THEN ""
    ELSE LET parts == Split(page_text, text.s)
             after_question == Strip(parts[Len(parts)])
             lines == Split(after_question, "\n")
             valid_lines == SelectSeq([k \in 1..Len(lines) |-> Strip(lines[k])],
                                      LAMBDA l : LineAccepted(l, text.s))
         IN IF Len(valid_lines) = 0 THEN "" ELSE LongestLine(valid_lines)

RECURSIVE RemoveAll(_, _, _)
\* `for element in ui_elements: cleaned_response = cleaned_response.replace(element, "")`
RemoveAll(s, list, k) ==
    IF k > Len(list) THEN s ELSE RemoveAll(Remove(s, list[k]), list, k + 1)

\* lines 374-384
CleanResponse(response_text) ==
    Join(" ", Words(RemoveAll(Strip(response_text), ui_elements_cleanup, 1)))

RECURSIVE FirstFallbackElements(_, _, _)
\* lines 258-265: the elements of the first fallback selector that matches any;
\* a query that raises is skipped
FirstFallbackElements(page, fallbacks, k) ==
    IF k > Len(fallbacks) THEN <<>>
    ELSE IF QueryRaises(page, fallbacks[k]) \/ Len(Query(page, fallbacks[k])) = 0
         THEN FirstFallbackElements(page, fallbacks, k + 1)
         ELSE Query(page, fallbacks[k])

\* a plausible slip: element candidates count only when there are two or more
\* elements, the page text is read otherwise
CaptureResponse_PageWhenFew(text, url, page, u) ==
    LET primary == get_primary_locator("response", url) IN
    IF page.closed
    THEN [ret |-> "Error: Page was closed while waiting for response",
          picked |-> "", path |-> "error", elements |-> <<>>, valid |-> <<>>,
          universal |-> u]
    ELSE IF QueryRaises(page, primary)
    THEN [ret |-> "Error: " \o page.error,
          picked |-> "", path |-> "error", elements |-> <<>>, valid |-> <<>>,
          universal |-> u]
    ELSE
    LET primary_elements == Query(page, primary)
        fb == IF Len(primary_elements) < 2
              THEN get_fallback_locators(primary, "response", u)
              ELSE [ret |-> <<>>, universal |-> u]
        response_elements ==
            primary_elements \o FirstFallbackElements(page, fb.ret, 1)
        loop == ElementLoop(response_elements, 1, Str(text), <<>>)
        fromElements == IF Len(loop.valid) > 0 /\ Len(response_elements) >= 2
                        THEN LatestResponse(loop.valid) ELSE ""
        response_text ==
            IF fromElements # "" THEN fromElements
            ELSE PageTextResponse(loop.text, page.page_text, page.evaluate_raises)
    IN [ret |-> IF response_text # "" THEN CleanResponse(response_text) ELSE NO_RESPONSE,
        picked |-> response_text,
        path |-> IF fromElements # "" THEN "elements"
                 ELSE IF response_text # "" THEN "page" ELSE "none",
        elements |-> response_elements,
        valid |-> loop.valid,
        universal |-> fb.universal]

\* the third try block (lines 229-394) for the question `text` on `page`: the
\* returned string, response_text as picked (before cleaning), where it came
\* from, response_elements, valid_responses, and the universal lists afterwards
CaptureResponse(text, url, page, u) ==
    LET primary == get_primary_locator("response", url) IN
    IF page.closed
    THEN [ret |-> "Error: Page was closed while waiting for response",
          picked |-> "", path |-> "error", elements |-> <<>>, valid |-> <<>>,
          universal |-> u]
    ELSE IF QueryRaises(page, primary)
    THEN [ret |-> "Error: " \o page.error,
          picked |-> "", path |-> "error", elements |-> <<>>, valid |-> <<>>,
          universal |-> u]
    ELSE
    LET primary_elements == Query(page, primary)
        fb == IF Len(primary_elements) < 2
              THEN get_fallback_locators(primary, "response", u)
              ELSE [ret |-> <<>>, universal |-> u]
        response_elements ==
            primary_elements \o FirstFallbackElements(page, fb.ret, 1)
        loop == ElementLoop(response_elements, 1, Str(text), <<>>)
        fromElements == IF Len(loop.valid) > 0 THEN LatestResponse(loop.valid) ELSE ""
        response_text ==
            IF fromElements # "" THEN fromElements
            ELSE PageTextResponse(loop.text, page.page_text, page.evaluate_raises)
    IN [ret |-> IF response_text # "" THEN CleanResponse(response_text) ELSE NO_RESPONSE,
        picked |-> response_text,
        path |-> IF fromElements # "" THEN "elements"
                 ELSE IF response_text # "" THEN "page" ELSE "none",
        elements |-> response_elements,
        valid |-> loop.valid,
        universal |-> fb.universal]

(***************************************************************************)
(* The pages the browser may show                                          *)
(***************************************************************************)
TextBox == [id |-> "textbox", visible |-> "yes", acts |-> TRUE]

HiddenBox == [id |-> "hidden-textarea", visible |-> "no", acts |-> TRUE]

Editor == [id |-> "editor-div", visible |-> "yes", acts |-> TRUE]

SendButton == [id |-> "send-button", visible |-> "yes", acts |-> TRUE]

\* handles whose click() raises (detached from the DOM, covered by an overlay)
StaleBox == [id |-> "stale-textbox", visible |-> "yes", acts |-> FALSE]

StaleButton == [id |-> "stale-button", visible |-> "yes", acts |-> FALSE]

NoMatch == [sel \in {} |-> <<>>]

\* the pages the input field and the send control are looked up on
DomPool ==
    {[name |-> "stub",
      match |-> ("textarea[placeholder*=\"Ask\"]" :> <<TextBox>>
                 @@ "textarea" :> <<TextBox>>
                 @@ GenericQuery :> <<TextBox>>
                 @@ "button[aria-label*=\"Send\"]" :> <<SendButton>>),
      bad |-> {}],
     [name |-> "empty", match |-> NoMatch, bad |-> {}],
     [name |-> "textarea-only",
      match |-> ("textarea" :> <<HiddenBox, TextBox>>
                 @@ GenericQuery :> <<HiddenBox, TextBox>>),
      bad |-> {}],
     [name |-> "custom-editor",
      match |-> (".chat-input" :> <<Editor>>),
      bad |-> {"button[type=\"submit\"]"}],
     [name |-> "stale",
      match |-> ("textarea[placeholder*=\"Ask\"]" :> <<StaleBox>>
                 @@ "textarea" :> <<StaleBox>>
                 @@ GenericQuery :> <<StaleBox>>
                 @@ ".send-btn" :> <<StaleButton>>),
      bad |-> {}]}

\* a response element: its text_content(), is_visible() and bounding_box()['y']
Bubble(text, y) ==
    [text |-> text, none |-> FALSE, visible |-> TRUE, box |-> TRUE, y |-> y,
     fault |-> "none"]

LongQuestion == "What is the capital city of France?"

ResponsePage(name, match, page_text) ==
    [name |-> name, match |-> match, bad |-> {}, page_text |-> page_text,
     closed |-> FALSE, evaluate_raises |-> FALSE, error |-> ""]

\* the pages the response is read from
ResponsePool ==
    {\* one short bubble, nothing after it in the page text
     ResponsePage("hello-4", ".chat-message" :> <<Bubble("Hello! 4", 120)>>,
                  "HI\nHello! 4"),
     ResponsePage("four", ".chat-message" :> <<Bubble("4", 200)>>,
                  "HI\nHello! 4\nWhat is 2+2?\n4"),
     \* the same bubble, and a footer under it
     ResponsePage("hello-4-footer", ".chat-message" :> <<Bubble("Hello! 4", 120)>>,
                  "HI\nHello! 4\nChatBot can make mistakes. Check important info."),
     \* the user's bubble with a line break after the text, then the reply
     ResponsePage("echo-and-reply",
                  ".chat-message" :> <<Bubble(LongQuestion \o "\n", 100),
                                       Bubble("The capital city of France is Paris.", 160)>>,
                  LongQuestion \o "\nThe capital city of France is Paris."),
     \* replies found by a fallback selector, padded with white space
     ResponsePage("padded-replies",
                  ".message" :> <<Bubble(" Hello! 4 ", 300),
                                  Bubble("  The  capital city of France is Paris. ", 160),
                                  Bubble("\nParis is the capital city of France.\n", 160)>>,
                  ""),
     \* no response element at all: the page text decides
     ResponsePage("text-only", NoMatch,
                  "new chat\n" \o LongQuestion
                     \o "\nParis.\n The capital city of France is Paris, of course. \nOK"),
     \* a reply that reports an error of the chatbot
     ResponsePage("error-reply",
                  ".message-content" :> <<Bubble(" Error: the model is overloaded, try again later. ", 80)>>,
                  ""),
     \* two bubbles without padding and a footer under them
     ResponsePage("two-and-footer",
                  ".chat-message" :> <<Bubble("Tell me more", 100), Bubble("Sure.", 160)>>,
                  "Tell me more\nSure.\nChatBot can make mistakes. Check important info."),
     \* a progress note where the reply will be, the reply in the page text only
     ResponsePage("thinking",
                  ".chat-message" :> <<Bubble("Thinking...", 100)>>,
                  LongQuestion \o "\nThe capital city of France is Paris, of course."),
     \* a reply scrolled above the viewport and one without a bounding box
     ResponsePage("boxless",
                  ".chat-message" :> <<Bubble(" Paris is the capital city of France. ", -40),
                                       [Bubble(" The capital city of France is Paris. ", 500)
                                           EXCEPT !.box = FALSE]>>,
                  ""),
     \* the primary query raises
     [ResponsePage("query-raises", NoMatch, "") EXCEPT
         !.bad = {".chat-message"}, !.error = "Target page, context or browser has been closed"],
     \* the page was closed during the wait
     [ResponsePage("closed", NoMatch, "") EXCEPT !.closed = TRUE]}

(***************************************************************************)
(* The resolver on its own: any sequence of find_element_with_healing calls *)
(***************************************************************************)
\* a handle whose is_visible() raises (the element left the DOM after the query)
DetachedBox == [id |-> "detached-box", visible |-> "raises", acts |-> TRUE]

\* the pages a lookup is made on: three of DomPool, and pages with hidden and
\* detached handles only, with matches for two fallback selectors, and with a
\* primary or a generic query that raises
HealPool ==
    {page \in DomPool : page.name \in {"empty", "textarea-only", "stale"}} \cup
    {[name |-> "hidden-only",
      match |-> ("textarea[placeholder*=\"Ask\"]" :> <<HiddenBox>>
                 @@ "textarea" :> <<DetachedBox, HiddenBox>>
                 @@ ".send-btn" :> <<DetachedBox>>
                 @@ GenericQuery :> <<HiddenBox, DetachedBox>>),
      bad |-> {"button[type=\"submit\"]"}],
     [name |-> "two-fallbacks",
      match |-> (".chat-input" :> <<Editor>>
                 @@ "textarea" :> <<HiddenBox, TextBox>>
                 @@ ".send-button" :> <<SendButton>>
                 @@ ".send-btn" :> <<StaleButton>>
                 @@ GenericQuery :> <<HiddenBox, TextBox>>),
      bad |-> {}],
     [name |-> "primary-raises",
      match |-> ("textarea" :> <<TextBox>> @@ GenericQuery :> <<TextBox>>),
      bad |-> {"textarea[placeholder*=\"Ask\"]", "button[aria-label*=\"Send\"]",
               ".chat-message"}],
     [name |-> "generic-raises", match |-> NoMatch, bad |-> {GenericQuery}]}

HealUrls == {"https://chat.example.com/app", "https://GEMINI.Google.com/app"}

\* "" stands for a call without primary_locator
HealPrimaries == {"", ".send-btn"}

\* one call find_element_with_healing(locator_type, primary_locator, url); `before`
\* keeps the outcome of the call made just before when it had the same arguments
\* and page
CallFind ==
    \E locator_type \in ElementClasses, primary_locator \in HealPrimaries,
       url \in HealUrls, page \in HealPool :
        \E r \in {find_element_with_healing(locator_type, primary_locator, url, page,
                                            universal)},
           args \in {<<locator_type, primary_locator, url, page.name>>} :
        /\ locCall' =
              [op |-> "find", args |-> args, element |-> r.element,
               stage |-> r.stage, queried |-> r.queried,
               repeated |-> locCall.op = "find" /\ locCall.args = args,
               before |-> IF locCall.op = "find" /\ locCall.args = args
                          THEN [element |-> locCall.element, queried |-> locCall.queried]
                          ELSE [element |-> NoElement, queried |-> <<>>]]
        /\ universal' = r.universal
        /\ UNCHANGED <<file, csvCall, sinceReset, runVars>>

NextHeal == CallFind

SpecHeal == InitLoc /\ [][NextHeal]_vars

(***************************************************************************)
(* browser_agent.py: main                                                  *)
(***************************************************************************)
\* how many questions the list may hold
MaxQuestions == 2

\* the questions of the end-to-end scenario
E2EQuestions == <<"HI", "What is 2+2?">>

\* the response pages of the scenario, by question: one visible element with the
\* text "Hello! 4", then one with "4"
E2EPages == <<{"hello-4", "hello-4-footer"}, {"four"}>>

QuestionFile == <<LongQuestion, "HI", "What is 2+2?", LongQuestion>>

\* load_questions_list: stripped, non-empty lines (here any run of up to
\* MaxQuestions lines of QuestionFile); main returns before the try when there
\* is none
QuestionLists ==
    {SubSeq(QuestionFile, w[1], w[2]) :
        w \in {v \in (1..Len(QuestionFile)) \X (1..Len(QuestionFile)) :
                   v[1] <= v[2] /\ v[2] - v[1] < MaxQuestions}}

\* what an earlier run may have left in TestData/chatresponse.csv
RunPriorFiles ==
    {NoFile,
     [exists |-> TRUE, rows |-> <<Header>> \o FilledRows(2)],
     [exists |-> TRUE, rows |-> <<Header>> \o FilledRows(ROWS)]}

Init ==
    /\ universal = DeclaredUniversal
    /\ locCall = NoLocCall
    /\ file \in RunPriorFiles
    /\ csvCall = NoCsvCall
    /\ sinceReset = [on |-> FALSE, pairs |-> <<>>, odd |-> 0]
    /\ pc = "setup"
    /\ questions \in QuestionLists
    /\ testUrl = "https://chat.example.com/app"
    /\ qIndex = 0
    /\ answer = ""
    /\ ex = NoExchange
    /\ attempted = 0
    /\ last = NoResult
    /\ scenario = (questions = E2EQuestions)
    /\ saves = <<>>
    /\ browser = "none"
    /\ status = "running"

harnessVars == <<locCall, csvCall, sinceReset>>

\* an exception raised in main's try body
Raise ==
    /\ pc' = "except"
    /\ status' = "failed"

\* an exception that leaves enter_text_and_get_response
RaiseFromExchange(kind) ==
    /\ Raise
    /\ last' = [NoResult EXCEPT !.kind = kind, !.question = questions[qIndex]]
    /\ scenario' = FALSE

\* lines 126-127: BrowserOperations(test_params) and setup_browser(), which may
\* raise before the browser is launched (start(), launch()) or after it
\* (new_page(), set_viewport_size())
SetupBrowser ==
    /\ pc = "setup"
    /\ \E outcome \in {"ready", "no-browser", "no-page"} :
          IF outcome = "ready"
          THEN /\ browser' = "open"
               /\ pc' = "open"
               /\ UNCHANGED status
          ELSE /\ Raise
               /\ browser' = IF outcome = "no-page" THEN "open" ELSE browser
    /\ UNCHANGED <<universal, file, harnessVars, questions, testUrl, qIndex, answer,
                   ex, attempted, last, scenario, saves>>

\* lines 130-133: open_url returns True or raises
OpenUrl ==
    /\ pc = "open"
    /\ \E loaded \in BOOLEAN :
          IF loaded
          THEN /\ pc' = "ask"
               /\ qIndex' = 1
               /\ UNCHANGED status
          ELSE /\ Raise
               /\ UNCHANGED qIndex
    /\ UNCHANGED <<universal, file, harnessVars, questions, testUrl, answer, ex,
                   attempted, last, scenario, saves, browser>>

\* enter_text_and_get_response, first try block (lines 166-187): find the input
\* field, click it, clear it, type the question
ResolveAndType ==
    /\ pc = "ask"
    /\ \E page \in DomPool, content_raises \in BOOLEAN :
          \E r \in {find_element_with_healing("input", "", testUrl, page, universal)} :
          IF content_raises
          THEN /\ RaiseFromExchange("raised-input")
               /\ ex' = NoExchange
               /\ UNCHANGED universal
          ELSE /\ universal' = r.universal
               /\ IF r.element.id = "" \/ ~r.element.acts
                  THEN /\ RaiseFromExchange("raised-input")
                       /\ ex' = NoExchange
                  ELSE /\ ex' = [NoExchange EXCEPT !.input = r.element.id]
                       /\ pc' = "send"
                       /\ UNCHANGED <<last, scenario, status>>
    /\ attempted' = attempted + 1
    /\ UNCHANGED <<file, harnessVars, questions, testUrl, qIndex, answer, saves, browser>>

\* second try block (lines 189-227): click the send button, or press the keys
SubmitText ==
    /\ pc = "send"
    /\ \E page \in DomPool, key_fault \in {"none", "click", "shift", "raise"} :
          \E r \in {find_element_with_healing("send", "", testUrl, page, universal)} :
          /\ universal' = r.universal
          /\ IF r.element.id # ""
             THEN /\ key_fault = "none"
                  /\ IF r.element.acts
                     THEN /\ ex' = [ex EXCEPT !.sent = "click", !.clicked = r.element.id,
                                              !.send_visible = SendControlVisible(page, testUrl)]
                          /\ pc' = "capture"
                          /\ UNCHANGED <<last, scenario, status>>
                     ELSE /\ RaiseFromExchange("raised-send")
                          /\ UNCHANGED ex
             ELSE IF key_fault = "raise"
                  THEN /\ RaiseFromExchange("raised-send")
                       /\ UNCHANGED ex
                  ELSE /\ ex' = [ex EXCEPT
                                    !.sent = "keys",
                                    !.send_visible = SendControlVisible(page, testUrl),
                                    !.keys = IF key_fault = "none" THEN <<"Enter", "Shift+Enter">>
                                             ELSE IF key_fault = "click" THEN <<"Enter">>
                                             ELSE <<"Enter", "Enter">>]
                       /\ pc' = "capture"
                       /\ UNCHANGED <<last, scenario, status>>
    /\ UNCHANGED <<file, harnessVars, questions, testUrl, qIndex, answer, attempted, saves,
                   browser>>

\* third try block (lines 229-394): wait, read the response, return a string
CaptureAnswer ==
    /\ pc = "capture"
    /\ \E page \in ResponsePool :
          \E c \in {CaptureResponse(questions[qIndex], testUrl, page, universal)} :
          /\ universal' = c.universal
          /\ answer' = c.ret
          /\ last' = [kind |-> "returned", question |-> questions[qIndex],
                       page |-> page.name, ret |-> c.ret, picked |-> c.picked,
                       path |-> c.path, elements |-> c.elements, valid |-> c.valid]
          /\ scenario' = (scenario /\ ex.clicked = SendButton.id
                                    /\ page.name \in E2EPages[qIndex])
    /\ pc' = "save"
    /\ UNCHANGED <<file, harnessVars, questions, testUrl, qIndex, ex, attempted, saves,
                   browser, status>>

\* main, lines 144-152: save the answer, or skip the question
SaveAnswer ==
    /\ pc = "save"
    /\ IF answer # "" /\ answer # NO_RESPONSE /\ ~StartsWith(answer, "Error:")
       THEN \E reset_file \in {qIndex = 1} :
            \E r \in {save_to_csv(questions[qIndex], answer, reset_file, file)} :
               /\ file' = r.file
               /\ saves' = Append(saves, [i |-> qIndex, question |-> questions[qIndex],
                                          response |-> answer,
                                          reset_file |-> reset_file, ret |-> r.ret])
       ELSE UNCHANGED <<file, saves>>
    /\ pc' = "wait"
    /\ UNCHANGED <<universal, harnessVars, questions, testUrl, qIndex, answer, ex,
                   attempted, last, scenario, browser, status>>

\* main, lines 155-157 and the loop header: wait(3000) before the next question
NextQuestion ==
    /\ pc = "wait"
    /\ IF qIndex < Len(questions)
       THEN \E waited \in BOOLEAN :
               IF waited
               THEN /\ qIndex' = qIndex + 1
                    /\ pc' = "ask"
                    /\ UNCHANGED status
               ELSE /\ Raise
                    /\ UNCHANGED qIndex
       ELSE /\ pc' = "finish"
            /\ UNCHANGED <<qIndex, status>>
    /\ UNCHANGED <<universal, file, harnessVars, questions, testUrl, answer, ex, attempted,
                   last, scenario, saves, browser>>

\* main, lines 159-168: the closing report; get_page_title() may raise
Finish ==
    /\ pc = "finish"
    /\ \E reported \in BOOLEAN :
          IF reported
          THEN /\ pc' = "finally"
               /\ status' = "completed"
          ELSE Raise
    /\ UNCHANGED <<universal, file, harnessVars, questions, testUrl, qIndex, answer, ex,
                   attempted, last, scenario, saves, browser>>

\* main, lines 170-174: the except clause prints and falls through to finally
Except ==
    /\ pc = "except"
    /\ pc' = "finally"
    /\ UNCHANGED <<universal, file, harnessVars, questions, testUrl, qIndex, answer, ex,
                   attempted, last, scenario, saves, browser, status>>

\* a plausible slip: the browser is closed at the end of the try body only, and
\* nothing is closed on the way out
Finally_NoClose ==
    /\ pc = "finally"
    /\ pc' = "done"
    /\ UNCHANGED <<universal, file, harnessVars, questions, testUrl, qIndex, answer, ex,
                   attempted, last, scenario, saves, status, browser>>

\* main, lines 176-180, and close_browser
Finally ==
    /\ pc = "finally"
    /\ browser' = IF browser = "open" THEN "closed" ELSE browser
    /\ pc' = "done"
    /\ UNCHANGED <<universal, file, harnessVars, questions, testUrl, qIndex, answer, ex,
                   attempted, last, scenario, saves, status>>

Next ==
    \/ SetupBrowser
    \/ OpenUrl
    \/ ResolveAndType
    \/ SubmitText
    \/ CaptureAnswer
    \/ SaveAnswer
    \/ NextQuestion
    \/ Finish
    \/ Except
    \/ Finally

Spec == Init /\ [][Next]_vars

\* the positions of main
Positions ==
    {"setup", "open", "ask", "send", "capture", "save", "wait", "finish", "except",
     "finally", "done"}

\* main moves on from the position it is at
Advance ==
    /\ pc # "done"
    /\ pc' \in Positions \ {pc}

\* the runs over the first MaxQuestions questions of the file
InitLive ==
    /\ Init
    /\ questions = SubSeq(QuestionFile, 1, MaxQuestions)

\* asyncio.run(main()) drives the coroutine until it returns: every await of main
\* and of the methods it calls comes back or raises, so main does not stay at a
\* position before its end for ever
SpecLive == InitLive /\ [][Next]_vars /\ WF_pc(Advance)

(***************************************************************************)
(* Claims about a run of main (checked under Spec)                         *)
(***************************************************************************)
\* C1: an error or a NotFound at any step of a question's exchange ends only that
\* question: enter_text_and_get_response yields an error-tagged string instead of
\* raising, and a run attempts every question of the list.
C1_ExchangeErrorsEndOnlyTheQuestion ==
    /\ last.kind \notin {"raised-input", "raised-send"}
    /\ (pc = "done" /\ qIndex >= 1 /\ last.kind # "none") => attempted = Len(questions)

\* the data rows of the scoreboard whose Question cell is filled
FilledRowCount ==
    IF file.exists
    THEN Cardinality({k \in 2..Len(file.rows) :
                         Len(file.rows[k]) >= 1 /\ Strip(file.rows[k][1]) # ""})
    ELSE 0

\* C2: every question's terminal outcome is handed to save_to_csv: a completed run
\* over n questions makes exactly n calls, one per question in list order, so with
\* n <= 20 the scoreboard ends with exactly n filled rows.
C2_EveryOutcomeSaved ==
    (pc = "done" /\ status = "completed") =>
        /\ Len(saves) = Len(questions)
        /\ \A k \in 1..Len(saves) : saves[k].i = k
        /\ Len(questions) <= ROWS => FilledRowCount = Len(questions)

\* C3: in every run that reaches the question loop the scoreboard reset happens
\* exactly once, before any row of the run is written, whatever the outcome of the
\* first question; no row of an earlier run survives.
C3_ResetOnceBeforeAnyRow ==
    /\ Cardinality({k \in 1..Len(saves) : saves[k].reset_file}) <= 1
    /\ saves # <<>> => saves[1].reset_file
    /\ (pc = "done" /\ status = "completed") =>
          /\ \E k \in 1..Len(saves) : saves[k].reset_file
          /\ \A k \in 2..Len(file.rows) : file.rows[k][1] # "old question"

\* C6: a candidate whose trimmed text equals the submitted question is never the
\* answer enter_text_and_get_response returns, on the element path and on the
\* page-text path.
C6_EchoNeverReturned ==
    (last.kind = "returned" /\ last.picked # "") => last.picked # last.question

\* C7: a candidate (element text or page-text line) whose trimmed text is shorter
\* than 20 characters is never the answer; when no candidate survives the
\* filtering, the result is the no-answer sentinel, never a short or empty string.
C7_ShortNeverReturned ==
    last.kind = "returned" =>
        /\ last.picked # "" => Len(last.picked) >= MIN_LENGTH
        /\ last.picked = "" => (last.ret = NO_RESPONSE \/ last.path = "error")
        /\ last.ret # ""

\* a page with a short padded reply above all others, and a long reply returned
C7_Witness ==
    /\ last.kind = "returned"
    /\ last.page = "padded-replies"
    /\ last.path = "elements"
    /\ Len(last.picked) >= SHORT_LENGTH

HealPage == CHOOSE page \in HealPool : page.name = locCall.args[4]

\* the primary selector the call on record queried first
HealPrimary ==
    IF locCall.args[2] = "" THEN get_primary_locator(locCall.args[1], locCall.args[3])
    ELSE locCall.args[2]

\* C11: for every element class, when the page has no visible element matching the
\* primary selector, any universal fallback selector of the class or the generic
\* query, find_element_with_healing returns None and raises nothing, also when a
\* query or a visibility probe raises.
C11_NoMatchReturnsNone ==
    (/\ locCall.op = "find"
     /\ \A selector \in {HealPrimary, GenericQuery}
                          \cup {DeclaredUniversal[locCall.args[1]][k] :
                                   k \in 1..Len(DeclaredUniversal[locCall.args[1]])} :
           ~VisibleMatch(HealPage, selector))
    => /\ locCall.element = NoElement
       /\ locCall.stage \in {"none", "error"}

\* a lookup on a page of hidden and detached handles, one fallback query raising
C11_Witness ==
    /\ locCall.op = "find"
    /\ locCall.args[4] = "hidden-only"
    /\ locCall.args[1] = "send"
    /\ locCall.stage = "none"
    /\ locCall.element = NoElement

\* C12: two consecutive calls of find_element_with_healing with the same arguments
\* on an unchanged page return the same element (or both None), and the second
\* call queries the same selectors in the same order as the first.
C12_RepeatedCallSameResult ==
    (locCall.op = "find" /\ locCall.repeated) =>
        /\ locCall.element = locCall.before.element
        /\ locCall.queried = locCall.before.queried

\* a repeated lookup that went through the fallback list, the first call having
\* taken the primary out of the class-level list
C12_Witness ==
    /\ locCall.op = "find"
    /\ locCall.repeated
    /\ locCall.stage = "fallback"
    /\ locCall.args[1] = "input"
    /\ ~InList(HealPrimary, universal.input)
    /\ InList(HealPrimary, DeclaredUniversal.input)

\* the declared universal list of the class without the primary
DeclaredFallbacks(locator_type, primary) ==
    SelectSeq(DeclaredUniversal[locator_type], LAMBDA selector : selector # primary)

\* what the priority chain yields on the page: the primary's first visible match,
\* else that of the earliest declared fallback which has one, else the generic one
ChainResult(page, locator_type, primary) ==
    LET list == DeclaredFallbacks(locator_type, primary)
        hits == {k \in 1..Len(list) : VisibleMatch(page, list[k])}
    IN IF VisibleMatch(page, primary) THEN FirstVisible(Query(page, primary))
       ELSE IF hits # {}
            THEN FirstVisible(Query(page, list[CHOOSE k \in hits : \A h \in hits : k <= h]))
            ELSE FirstVisible(Query(page, GenericQuery))

\* C17: find_element_with_healing follows the priority chain strictly: the first
\* visible match of the primary; otherwise that of the earliest universal fallback
\* selector (in list order) with a visible match; otherwise that of the generic
\* query; a lower stage is never queried once a higher stage has a visible match.
C17_PriorityChain ==
    (/\ locCall.op = "find"
     /\ ~QueryRaises(HealPage, HealPrimary)
     /\ ~QueryRaises(HealPage, GenericQuery))
    => /\ locCall.element = ChainResult(HealPage, locCall.args[1], HealPrimary)
       /\ VisibleMatch(HealPage, HealPrimary) => locCall.queried = <<HealPrimary>>
       /\ (\E k \in 1..Len(DeclaredFallbacks(locCall.args[1], HealPrimary)) :
              VisibleMatch(HealPage, DeclaredFallbacks(locCall.args[1], HealPrimary)[k]))
          => ~InList(GenericQuery, locCall.queried)

(***************************************************************************)
(* Claims about the selector configuration (checked under SpecLoc)         *)
(***************************************************************************)
\* C15: the selector configuration is immutable: after any sequence of
\* get_fallback_locators calls the universal list of each class has its declared
\* content, and the list returned for (class, primary) is the declared list of the
\* class with only that primary removed, in declared order.
C15_ConfigurationImmutable ==
    /\ universal = DeclaredUniversal
    /\ (locCall.op = "fallback" /\ locCall.locator_type \in ElementClasses) =>
          locCall.ret = DeclaredFallbacks(locCall.locator_type, locCall.primary)

(***************************************************************************)
(* Claims about the end of a run (checked under SpecLive)                  *)
(***************************************************************************)
\* C13: once a browser session has been started in a run, it is eventually closed,
\* exactly once, before main returns, on every exit path: normal completion, a
\* failed navigation, an exception raised inside the question loop.
C13_BrowserClosedOnce ==
    /\ (browser = "open") ~> (pc = "done" /\ browser = "closed")
    /\ [](pc = "done" => browser # "open")
    /\ [][/\ browser = "closed" => browser' = "closed"
          /\ browser' = "closed" => browser \in {"open", "closed"}]_vars

\* a run ended by an exception inside the question loop, the browser closed
C13_Witness ==
    /\ pc = "done"
    /\ status = "failed"
    /\ qIndex >= 1
    /\ browser = "closed"

(***************************************************************************)
(* More claims about the scoreboard (checked under SpecCsv)                *)
(***************************************************************************)
\* the pairs passed since the reset whose question is not blank, in call order
NonBlankPairs ==
    SelectSeq(sinceReset.pairs, LAMBDA pair : Strip(pair[1]) # "")

\* C14: after a successful reset and any sequence of later save_to_csv calls
\* without reset (successful or failing, with any questions and answers) the store
\* has exactly 21 rows, the header is unchanged, the Score cell of every data row
\* is empty, and the filled rows appear in the order of the calls that wrote them,
\* never reordered or compacted.
C14_ShapeAndOrderKept ==
    sinceReset.on =>
        LET m == IF Len(NonBlankPairs) <= ROWS THEN Len(NonBlankPairs) ELSE ROWS IN
        /\ file.exists
        /\ Len(file.rows) = ROWS + 1
        /\ file.rows[1] = Header
        /\ \A k \in 2..(ROWS + 1) : Len(file.rows[k]) = 3 /\ file.rows[k][3] = ""
        /\ \A k \in 1..m :
              /\ Translate(file.rows[k + 1][1]) = Translate(NonBlankPairs[k][1])
              /\ Translate(file.rows[k + 1][2]) = Translate(NonBlankPairs[k][2])
        /\ \A k \in (m + 2)..(ROWS + 1) : Strip(file.rows[k][1]) = ""

\* a call with a blank question between two calls with questions, none a reset
C14_Witness ==
    /\ sinceReset.on
    /\ csvCall.op = "save"
    /\ ~csvCall.reset_file
    /\ csvCall.ret
    /\ Len(NonBlankPairs) >= 2
    /\ \E j \in 2..(Len(sinceReset.pairs) - 1) : Strip(sinceReset.pairs[j][1]) = ""

(***************************************************************************)
(* More claims about a run of main (checked under Spec)                    *)
(***************************************************************************)
\* C16: when the input field has been resolved and typed into and the page has no
\* visible element matching the primary send selector or any universal send
\* selector, the driver clicks no element as a send control and submits with the
\* keys Enter then Shift+Enter directed at the input element; an element clicked
\* as the send control is never the input field itself.
C16_SendControlIsNotTheInput ==
    /\ (ex.sent # "" /\ ~ex.send_visible) =>
          /\ ex.sent = "keys"
          /\ ex.clicked = ""
          /\ Head(ex.keys) = "Enter"
    /\ ex.sent = "click" => ex.clicked # ex.input

\* the page the last response was read from
ResponsePageRead == CHOOSE page \in ResponsePool : page.name = last.page

\* the response elements that pass the filters, by position in response_elements
Survivors ==
    {k \in 1..Len(last.elements) :
        /\ last.elements[k].fault = "none"
        /\ ~last.elements[k].none
        /\ ElementAccepted(last.elements[k].text, last.elements[k].visible)}

\* the bounding-box Y of a response element, 0 without a bounding box
BoxY(element) == IF element.box THEN element.y ELSE 0

\* C18: among the response candidates that survive filtering the selected answer
\* is the one with the largest bounding-box Y (a candidate without a bounding box
\* counts as Y = 0); of several survivors with the largest Y the first in
\* candidate order is selected.
C18_LowestOnPageFirstOfTies ==
    last.kind = "returned" =>
        \A survivors \in {Survivors} :
            survivors # {} =>
                \E k \in survivors :
                    /\ last.picked = Strip(last.elements[k].text)
                    /\ \A h \in survivors :
                          BoxY(last.elements[h]) <= BoxY(last.elements[k])
                    /\ \A h \in survivors :
                          h < k => BoxY(last.elements[h]) < BoxY(last.elements[k])

\* two survivors at the same Y, the first of them returned
C18_Witness ==
    /\ last.kind = "returned"
    /\ last.page = "padded-replies"
    /\ Cardinality(Survivors) = 2
    /\ last.picked = "The  capital city of France is Paris."

\* C19 as stated: the page-text fallback is used exactly when the response-class
\* resolution yields fewer than 2 matching elements; with 2 or more the answer
\* comes from element candidates only, with fewer than 2 no element candidate is
\* selected.
C19_PageTextIffFewerThanTwo ==
    (last.kind = "returned" /\ last.path # "error") =>
        /\ Len(last.elements) >= 2 => last.path # "page"
        /\ Len(last.elements) < 2 => last.path # "elements"

\* C19 (amended): the page-text fallback is used exactly when no element candidate
\* survives the filtering, whatever the number of matching elements; a count of
\* fewer than 2 matches of the primary response selector only decides whether the
\* matches of a universal fallback selector are added to the candidates.
C19_PageTextIffNoSurvivor ==
    (last.kind = "returned" /\ last.path # "error") =>
        LET primary_elements ==
                Query(ResponsePageRead, get_primary_locator("response", testUrl))
        IN
        /\ last.valid # <<>> <=> last.path = "elements"
        /\ last.path = "page" => last.valid = <<>> /\ last.picked # ""
        /\ Len(primary_elements) >= 2 => last.elements = primary_elements
        /\ SubSeq(last.elements, 1, Len(primary_elements)) = primary_elements

\* two elements matched, none survived, the answer taken from the page text
C19_Witness ==
    /\ last.kind = "returned"
    /\ last.page = "two-and-footer"
    /\ Len(last.elements) = 2
    /\ last.valid = <<>>
    /\ last.path = "page"

\* C20: on the page-text fallback the candidate lines are the lines of the page
\* text that follow the last occurrence of the submitted question, whatever
\* response elements were examined before; of the lines that survive the filters
\* the longest is the answer, and there is no answer when the submitted question
\* does not occur in the page text.
C20_PageTextFollowsQuestion ==
    (last.kind = "returned" /\ last.path \in {"page", "none"}) =>
        /\ last.picked = PageTextResponse(Str(last.question), ResponsePageRead.page_text,
                                          ResponsePageRead.evaluate_raises)
        /\ ~Contains(last.question, ResponsePageRead.page_text) => last.picked = ""

\* the first data row (a row of at least the three cells Question, Answer, Score)
\* of `rows` whose Question cell is blank, 0 when there is none
FirstBlankQuestion(rows) ==
    LET blank == {k \in 2..Len(rows) : Len(rows[k]) >= 3 /\ Strip(rows[k][1]) = ""} IN
    IF blank = {} THEN 0 ELSE CHOOSE k \in blank : \A h \in blank : k <= h

\* C21: a save_to_csv call without reset changes at most one data row, namely the
\* first one whose Question cell is blank: every data row whose Question cell is
\* non-blank and every row after the one written is left exactly as it was, and
\* a call that fails (store full or file missing) changes nothing and creates no
\* file.
C21_OnlyFirstBlankRowChanges ==
    (csvCall.op = "save" /\ ~csvCall.reset_file) =>
        IF csvCall.ret
        THEN /\ csvCall.before.exists
             /\ file.exists
             /\ Len(file.rows) = Len(csvCall.before.rows)
             /\ \A k \in 1..Len(file.rows) :
                   k # FirstBlankQuestion(csvCall.before.rows) =>
                       file.rows[k] = csvCall.before.rows[k]
        ELSE file = csvCall.before

====
